---- MODULE Spec2Model ----
(***************************************************************************)
(* Model of the flash card application: the markdown table parser          *)
(* (flashcards/utils.py), the deck composition and section-spread shuffle  *)
(* (flashcards/utils.py, flashcards/controller.py), the flashcard session  *)
(* (flashcards/screens/flashcard.py), the quiz session and its answer      *)
(* matcher (flashcards/screens/quiz.py), the quiz history                  *)
(* (flashcards/history.py) and the screens App switches between            *)
(* (flashcards/controller.py, flashcards/screens/quiz_results.py).         *)
(*                                                                         *)
(* A Python str is modelled as a sequence of one-character strings, so     *)
(* that strip, startswith, "in" and split are computed, not assumed.       *)
(***************************************************************************)
EXTENDS Integers, Sequences, FiniteSets, TLC

VARIABLES
    lines,            \* parse_markdown_tables: content.split("\n")
    i,                \* parse_markdown_tables: index of the line under examination (0-based)
    cards,            \* parse_markdown_tables: cards collected so far
    sections,         \* parse_markdown_tables: section catalog collected so far
    current_section,  \* parse_markdown_tables: section given to the next cards
    pc,               \* position of the parser: "scan" (outer loop), "rows" (inner loop), "done"
    shuffle_in,       \* spread_shuffle: the list passed as cards
    shuffle_out,      \* spread_shuffle: the list returned
    shuffle_pc,       \* spread_shuffle: "call" before the call, "returned" after it
    app_cards,        \* App.cards: the content of the pool list
    section_vars,     \* MainMenu.section_vars: section name -> checkbox value
    card_count,       \* MainMenu.card_count_var
    screen,           \* App.flashcard_app: the mode of the FlashCardApp held, "menu" when it is None
    shown,            \* the screens whose frame is packed: "menu", "cards", "results", "scoreboard"
    results_screen,   \* App.results_screen: <<>> when it is None, else the numbers the screen was given
    scoreboard_screen, \* whether App.scoreboard_screen is a ScoreboardScreen
    arrow_keys,       \* what the root bindings of <Left>, <Right>, <space> call: "none" or "cards"
    return_key,       \* what the root binding of <Return> calls: "none", "cards" or "results"
    app_raised,       \* the exception raised by the last handler of App, "none" when it returned
    fc_cards,         \* the cards of the FlashCardApp made last: the content of the deck list, when it is a list of its own
    fc_alias,         \* TRUE when FlashCardApp.cards is the very list object App.cards
    original_order,   \* FlashCardApp.original_order
    current_index,    \* BaseCardApp.current_index
    is_flipped,       \* FlashCardApp.is_flipped
    user_answer,      \* _submit_answer: the text of the entry, self.entry.get()
    correct_term,     \* _submit_answer: the term of the current card
    verdict,          \* _submit_answer: the feedback branch taken, "none" before the comparison
    dir_exists,       \* whether the directory of the history file exists
    file_exists,      \* whether the history file exists
    file_rows,        \* the lines of the history file
    now,              \* the wall clock datetime.now() reads
    loaded,           \* the list returned by the last load_quiz_history()
    saves,            \* the number of save_quiz_result calls made
    last_call,        \* the last call of the history module, its arguments and the clock at the call
    log_before,       \* what load_quiz_history would have returned when the last save was called
    current_answered, \* QuizCardApp.current_answered
    feedback,         \* the feedback shown by the quiz: "none" when cleared, else the branch taken
    answers,          \* the answers given in the session: the index of the card and the branch taken
    quiz_raised       \* the exception raised by the last handler of the quiz, "none" when it returned

parseVars == <<lines, i, cards, sections, current_section, pc>>
shuffleVars == <<shuffle_in, shuffle_out, shuffle_pc>>
menuVars == <<section_vars, card_count>>
sessionVars == <<fc_cards, fc_alias, original_order, current_index, is_flipped>>
screenVars == <<shown, results_screen, scoreboard_screen, arrow_keys, return_key, app_raised>>
appVars == <<app_cards, menuVars, screen, sessionVars, screenVars>>

matchVars == <<user_answer, correct_term, verdict>>

filesVars == <<dir_exists, file_exists, file_rows>>
historyVars == <<filesVars, now, loaded, saves, last_call, log_before>>

quizVars == <<current_answered, feedback, answers, quiz_raised>>

vars == <<parseVars, shuffleVars, appVars, matchVars, historyVars, quizVars>>

-----------------------------------------------------------------------------
(* Python str operations *)

RECURSIVE lstrip(_)
\* str.lstrip(): drop leading whitespace
lstrip(s) ==
    IF s # <<>> /\ Head(s) = " " THEN lstrip(Tail(s)) ELSE s

RECURSIVE rstrip(_)
\* str.rstrip(): drop trailing whitespace
rstrip(s) ==
    IF s # <<>> /\ s[Len(s)] = " " THEN rstrip(SubSeq(s, 1, Len(s) - 1)) ELSE s

\* str.strip()
strip(s) == rstrip(lstrip(s))

\* str.startswith(p)
startswith(s, p) ==
    /\ Len(s) >= Len(p)
    /\ SubSeq(s, 1, Len(p)) = p

\* p in s (substring test)
contains(s, p) ==
    \E k \in 0..(Len(s) - Len(p)) : SubSeq(s, k + 1, k + Len(p)) = p

RECURSIVE splitFrom(_, _, _)
\* the fields of s after position k, cur being the field under construction
splitFrom(s, d, cur) ==
    IF s = <<>> THEN <<cur>>
    ELSE IF Head(s) = d THEN <<cur>> \o splitFrom(Tail(s), d, <<>>)
    ELSE splitFrom(Tail(s), d, Append(cur, Head(s)))

\* str.split(d) for a one-character delimiter d
split(s, d) == splitFrom(s, d, <<>>)

\* list.index(c): 0-based position of the first element equal to c
index(l, c) == (CHOOSE k \in 1..Len(l) : l[k] = c /\ \A m \in 1..(k - 1) : l[m] # c) - 1

-----------------------------------------------------------------------------
(* Text constants of parse_markdown_tables *)

Pipe == "|"
General == <<"G", "e", "n", "e", "r", "a", "l">>
HeadingMark == <<"=", "=", "=", "=">>
SeparatorMark == <<"-", "-", "-", "-">>

-----------------------------------------------------------------------------
(* Input documents *)

MaxLines == 5

L_blank   == <<>>
L_text    == <<" ", "A">>
L_marker  == <<"=", "=", "=", "=", " ">>
L_markerx == <<"=", "=", "=", "=", "x">>
L_row2    == <<"|", "a", "|", " ", "b", "|">>
L_sep     == <<"|", "-", "-", "-", "-", "|">>
L_row4    == <<"|", "a", "|", "|", "b", "|", "c", "|", "d", "|">>

LineSet == {L_blank, L_text, L_marker, L_markerx, L_row2, L_sep, L_row4}

\* content.split("\n") always has at least one element
Documents == UNION {[1..n -> LineSet] : n \in 1..MaxLines}

-----------------------------------------------------------------------------
(* parse_markdown_tables *)

\* lines[i] of the source (0-based)
LineAt(k) == lines[k + 1]

\* a variant without the membership test
Register_always(secs, name) == Append(secs, name)

\* if current_section not in sections: sections.append(current_section)
Register(secs, name) ==
    IF \E k \in 1..Len(secs) : secs[k] = name THEN secs ELSE Append(secs, name)

\* i + 1 < len(lines) and lines[i + 1].strip().startswith("====")
IsHeadingAt(k) ==
    /\ k + 1 < Len(lines)
    /\ startswith(strip(LineAt(k + 1)), HeadingMark)

\* line.startswith("|") and "|" in line[1:]
IsTableHeader(line) ==
    /\ startswith(line, <<Pipe>>)
    /\ contains(Tail(line), <<Pipe>>)

\* i + 1 < len(lines) and "----" in lines[i + 1]
HasSeparatorAt(k) ==
    /\ k + 1 < Len(lines)
    /\ contains(LineAt(k + 1), SeparatorMark)

\* cells = [c.strip() for c in row.split("|")]
SplitCells(row) ==
    LET raw == split(row, Pipe) IN [k \in 1..Len(raw) |-> strip(raw[k])]

\* cells = [c for c in cells if c or cells.index(c) not in [0, len(cells) - 1]]
DropBounding(cells) ==
    SelectSeq(cells, LAMBDA c : c # <<>> \/ index(cells, c) \notin {0, Len(cells) - 1})

\* cells = [c for c in cells if c]
DropEmpty(cells) ==
    SelectSeq(cells, LAMBDA c : c # <<>>)

\* the cells of a data row as the card is built from them
RowCells(row) == DropEmpty(DropBounding(SplitCells(row)))

\* a variant that asks for a third cell
EnoughCells_strict(cells) == Len(cells) > 2

\* len(cells) >= 2
EnoughCells(cells) == Len(cells) >= 2

\* a variant that takes the last cell as extra
MakeCard_last(cells, section) ==
    [term |-> cells[1],
     interpretation |-> cells[2],
     extra |-> IF Len(cells) > 2 THEN cells[Len(cells)] ELSE <<>>,
     section |-> section]

\* card = {"term": ..., "interpretation": ..., "extra": ..., "section": ...}
MakeCard(cells, section) ==
    [term |-> cells[1],
     interpretation |-> cells[2],
     extra |-> IF Len(cells) > 2 THEN cells[3] ELSE <<>>,
     section |-> section]

\* no call of spread_shuffle under way
ShuffleIdle ==
    /\ shuffle_in = <<>>
    /\ shuffle_out = <<>>
    /\ shuffle_pc = "idle"

\* no window: no frame packed, no root binding
ScreensIdle ==
    /\ shown = {}
    /\ results_screen = <<>>
    /\ scoreboard_screen = FALSE
    /\ arrow_keys = "none"
    /\ return_key = "none"
    /\ app_raised = "none"

\* no application
AppIdle ==
    /\ ScreensIdle
    /\ app_cards = <<>>
    /\ section_vars = <<>>
    /\ card_count = 0
    /\ screen = "none"
    /\ fc_cards = <<>>
    /\ fc_alias = FALSE
    /\ original_order = <<>>
    /\ current_index = 0
    /\ is_flipped = FALSE

\* no parse under way
ParseIdle ==
    /\ lines = <<>>
    /\ i = 0
    /\ cards = <<>>
    /\ sections = <<>>
    /\ current_section = General
    /\ pc = "idle"

\* no answer under evaluation
MatchIdle ==
    /\ user_answer = <<>>
    /\ correct_term = <<>>
    /\ verdict = "idle"

\* no call of the history module and no history file
HistoryIdle ==
    /\ dir_exists = FALSE
    /\ file_exists = FALSE
    /\ file_rows = <<>>
    /\ now = 0
    /\ loaded = <<>>
    /\ saves = 0
    /\ last_call = [op |-> "idle", total |-> 0, correct |-> 0, time |-> 0]
    /\ log_before = <<>>

\* no quiz session
QuizIdle ==
    /\ current_answered = FALSE
    /\ feedback = "idle"
    /\ answers = <<>>
    /\ quiz_raised = "none"

InitParse ==
    /\ lines \in Documents
    /\ i = 0
    /\ cards = <<>>
    /\ sections = <<>>
    /\ current_section = General
    /\ pc = "scan"
    /\ ShuffleIdle
    /\ AppIdle
    /\ MatchIdle
    /\ HistoryIdle
    /\ QuizIdle

\* a variant that leaves the registration to the first table of the section
Heading_lazy ==
    /\ pc = "scan"
    /\ i < Len(lines)
    /\ IsHeadingAt(i)
    /\ current_section' = strip(LineAt(i))
    /\ i' = i + 2
    /\ UNCHANGED <<lines, cards, sections, pc, shuffleVars, appVars, matchVars, historyVars, quizVars>>

\* a line followed by ==== : section title
Heading ==
    /\ pc = "scan"
    /\ i < Len(lines)
    /\ IsHeadingAt(i)
    /\ current_section' = strip(LineAt(i))
    /\ sections' = Register(sections, current_section')
    /\ i' = i + 2
    /\ UNCHANGED <<lines, cards, pc, shuffleVars, appVars, matchVars, historyVars, quizVars>>

\* a variant that leaves the catalog alone at the start of a table
TableStart_silent ==
    /\ pc = "scan"
    /\ i < Len(lines)
    /\ ~IsHeadingAt(i)
    /\ IsTableHeader(strip(LineAt(i)))
    /\ HasSeparatorAt(i)
    /\ i' = i + 2
    /\ pc' = "rows"
    /\ UNCHANGED <<lines, cards, sections, current_section, shuffleVars, appVars, matchVars, historyVars, quizVars>>

\* a table header row followed by its separator: move to the data rows
TableStart ==
    /\ pc = "scan"
    /\ i < Len(lines)
    /\ ~IsHeadingAt(i)
    /\ IsTableHeader(strip(LineAt(i)))
    /\ HasSeparatorAt(i)
    /\ sections' = Register(sections, current_section)
    /\ i' = i + 2
    /\ pc' = "rows"
    /\ UNCHANGED <<lines, cards, current_section, shuffleVars, appVars, matchVars, historyVars, quizVars>>

\* a variant that stays on a header row that has no separator
HeaderWithoutSeparator_stay ==
    /\ pc = "scan"
    /\ i < Len(lines)
    /\ ~IsHeadingAt(i)
    /\ IsTableHeader(strip(LineAt(i)))
    /\ ~HasSeparatorAt(i)
    /\ sections' = Register(sections, current_section)
    /\ UNCHANGED <<lines, i, cards, current_section, pc, shuffleVars, appVars, matchVars, historyVars, quizVars>>

\* a table header row without a separator: the section is registered, the line skipped
HeaderWithoutSeparator ==
    /\ pc = "scan"
    /\ i < Len(lines)
    /\ ~IsHeadingAt(i)
    /\ IsTableHeader(strip(LineAt(i)))
    /\ ~HasSeparatorAt(i)
    /\ sections' = Register(sections, current_section)
    /\ i' = i + 1
    /\ UNCHANGED <<lines, cards, current_section, pc, shuffleVars, appVars, matchVars, historyVars, quizVars>>

\* any other line
SkipLine ==
    /\ pc = "scan"
    /\ i < Len(lines)
    /\ ~IsHeadingAt(i)
    /\ ~IsTableHeader(strip(LineAt(i)))
    /\ i' = i + 1
    /\ UNCHANGED <<lines, cards, sections, current_section, pc, shuffleVars, appVars, matchVars, historyVars, quizVars>>

\* one iteration of the inner loop over the data rows
Row ==
    /\ pc = "rows"
    /\ i < Len(lines)
    /\ startswith(strip(LineAt(i)), <<Pipe>>)
    /\ LET cells == RowCells(strip(LineAt(i))) IN
           cards' = IF EnoughCells(cells)
                    THEN Append(cards, MakeCard(cells, current_section))
                    ELSE cards
    /\ i' = i + 1
    /\ UNCHANGED <<lines, sections, current_section, pc, shuffleVars, appVars, matchVars, historyVars, quizVars>>

\* the inner loop ends (end of document or break), the outer loop continues at the same line
EndTable ==
    /\ pc = "rows"
    /\ IF i < Len(lines) THEN ~startswith(strip(LineAt(i)), <<Pipe>>) ELSE TRUE
    /\ pc' = "scan"
    /\ UNCHANGED <<lines, i, cards, sections, current_section, shuffleVars, appVars, matchVars, historyVars, quizVars>>

\* return cards, sections
Return ==
    /\ pc = "scan"
    /\ i >= Len(lines)
    /\ pc' = "done"
    /\ UNCHANGED <<lines, i, cards, sections, current_section, shuffleVars, appVars, matchVars, historyVars, quizVars>>

NextParse ==
    \/ Heading
    \/ TableStart
    \/ HeaderWithoutSeparator
    \/ SkipLine
    \/ Row
    \/ EndTable
    \/ Return

SpecParse == InitParse /\ [][NextParse]_vars

\* the documents of the runs that are followed to their end
MaxFairLines == 4

InitParseFair == InitParse /\ Len(lines) <= MaxFairLines

\* the call runs on: the interpreter takes the next step of the loop whenever there is one
SpecParseFair == InitParseFair /\ [][NextParse]_vars /\ WF_vars(NextParse)

-----------------------------------------------------------------------------
(* Cards of the deck composition *)

MaxDeck == 4
MaxPool == 2
MaxCount == 2

CardA1 == [term |-> <<"a">>, interpretation |-> <<"x">>, extra |-> <<>>, section |-> <<"A">>]
CardA2 == [term |-> <<"b">>, interpretation |-> <<"y">>, extra |-> <<"c">>, section |-> <<"A">>]
CardB1 == [term |-> <<"d">>, interpretation |-> <<"z">>, extra |-> <<>>, section |-> <<"B">>]

CardSet == {CardA1, CardA2, CardB1}

\* the lists of at most n cards
CardLists(n) == UNION {[1..k -> CardSet] : k \in 0..n}

\* a list weighted to one section: four cards of section A and two of section B
SpreadFixture == <<CardA1, CardA2, CardA1, CardA2, CardB1, CardB1>>

-----------------------------------------------------------------------------
(* Python list and random operations *)

\* the elements of a list
Elements(l) == {l[k] : k \in 1..Len(l)}

\* the orders random.shuffle can leave a list in
Shuffles(l) ==
    LET n == Len(l)
        bij == {f \in [1..n -> 1..n] : \A a, b \in 1..n : f[a] = f[b] => a = b}
    IN {[k \in 1..n |-> l[f[k]]] : f \in bij}

\* a variant of random.choices that never draws more than the population holds
Choices_capped(population, k) ==
    [1..(IF k < Len(population) THEN k ELSE Len(population)) -> Elements(population)]

\* the lists random.choices(population, k=k) can return
Choices(population, k) == [1..k -> Elements(population)]

-----------------------------------------------------------------------------
(* spread_shuffle *)

RECURSIVE SectionOrder(_, _)
\* the keys of by_section in insertion order
SectionOrder(l, seen) ==
    IF l = <<>> THEN <<>>
    ELSE IF Head(l).section \in seen THEN SectionOrder(Tail(l), seen)
    ELSE <<Head(l).section>> \o SectionOrder(Tail(l), seen \cup {Head(l).section})

\* a variant that keeps all the cards in one group
GroupBySection_single(l) == <<l>>

\* list(by_section.values()) before any shuffle
GroupBySection(l) ==
    LET keys == SectionOrder(l, {})
    IN [k \in 1..Len(keys) |-> SelectSeq(l, LAMBDA c : c.section = keys[k])]

RECURSIVE ShuffleEach(_)
\* the outcomes of random.shuffle(section_cards) for every group
ShuffleEach(groups) ==
    IF groups = <<>> THEN {<<>>}
    ELSE {<<h>> \o t : h \in Shuffles(Head(groups)), t \in ShuffleEach(Tail(groups))}

\* any(sections)
AnyNonEmpty(groups) == \E k \in 1..Len(groups) : groups[k] # <<>>

\* a variant of the loop condition: all(sections)
AllNonEmpty(groups) == groups # <<>> /\ \A k \in 1..Len(groups) : groups[k] # <<>>

RECURSIVE Round(_, _)
\* one pass of the for loop: the cards popped, from group k on
Round(groups, k) ==
    IF k > Len(groups) THEN <<>>
    ELSE (IF groups[k] # <<>> THEN <<groups[k][Len(groups[k])]>> ELSE <<>>) \o Round(groups, k + 1)

\* the groups after one pass of the for loop
Popped(groups) ==
    [k \in 1..Len(groups) |->
        IF groups[k] # <<>> THEN SubSeq(groups[k], 1, Len(groups[k]) - 1) ELSE <<>>]

RECURSIVE RoundRobin_all(_)
\* a variant that stops as soon as one group is exhausted
RoundRobin_all(groups) ==
    IF ~AllNonEmpty(groups) THEN <<>>
    ELSE Round(groups, 1) \o RoundRobin_all(Popped(groups))

RECURSIVE RoundRobin(_)
\* while any(sections): for section_cards in sections: if section_cards: result.append(section_cards.pop())
RoundRobin(groups) ==
    IF ~AnyNonEmpty(groups) THEN <<>>
    ELSE Round(groups, 1) \o RoundRobin(Popped(groups))

\* a variant that shuffles the whole list and spreads nothing
SpreadShuffleOutcomes_plain(l) == Shuffles(l)

\* the lists spread_shuffle(l) can return
SpreadShuffleOutcomes(l) ==
    IF l = <<>> THEN {<<>>}
    ELSE {RoundRobin(order) :
            order \in UNION {Shuffles(groups) : groups \in ShuffleEach(GroupBySection(l))}}

\* the lists spread_shuffle_with_replacement(l, k) can return
SpreadShuffleWithReplacement(l, k) ==
    IF l = <<>> THEN {<<>>}
    ELSE UNION {SpreadShuffleOutcomes(sampled) : sampled \in Choices(l, k)}

\* a variant that hands the list back when all of it is asked for
ResultIsInput_whole(l, k) == k = Len(l)

\* whether the list returned by spread_shuffle_with_replacement(l, k) is the object l
ResultIsInput(l, k) == FALSE

InitShuffle ==
    /\ shuffle_in \in CardLists(MaxDeck) \cup {SpreadFixture}
    /\ shuffle_out = <<>>
    /\ shuffle_pc = "call"
    /\ ParseIdle
    /\ AppIdle
    /\ MatchIdle
    /\ HistoryIdle
    /\ QuizIdle

\* result = spread_shuffle(cards)
SpreadShuffle ==
    /\ shuffle_pc = "call"
    /\ shuffle_out' \in SpreadShuffleOutcomes(shuffle_in)
    /\ shuffle_pc' = "returned"
    /\ UNCHANGED <<shuffle_in, parseVars, appVars, matchVars, historyVars, quizVars>>

NextShuffle == SpreadShuffle

SpecShuffle == InitShuffle /\ [][NextShuffle]_vars

-----------------------------------------------------------------------------
(* QuizCardApp._submit_answer: the answer matcher *)

Comma == ","
Hyphen == "-"

\* str.lower() of one character
lowerChar(c) == IF c = "A" THEN "a" ELSE IF c = "B" THEN "b" ELSE c

\* str.lower()
lower(s) == [k \in 1..Len(s) |-> lowerChar(s[k])]

\* str.replace("-", "")
removeHyphens(s) == SelectSeq(s, LAMBDA c : c # Hyphen)

\* normalize(s): s.strip().lower().replace("-", "")
normalize(s) == removeHyphens(lower(strip(s)))

\* {normalize(t) for t in s.split(",") if normalize(t)}
Terms(s) == {normalize(t) : t \in Elements(split(s, Comma))} \ {<<>>}

\* a variant that looks at the first term of the answer only
UserTerms_first(entry) == Terms(split(normalize(entry), Comma)[1])

\* user_terms: the entry text is normalized as a whole, then split and normalized again
UserTerms(entry) == Terms(normalize(entry))

\* correct_terms
CorrectTerms(term) == Terms(term)

\* a variant that takes the empty answer for a subset of the correct terms
Verdict_lenient(entry, term) ==
    IF UserTerms(entry) = CorrectTerms(term) THEN "Correct"
    ELSE IF UserTerms(entry) \subseteq CorrectTerms(term) THEN "Partial"
    ELSE "Incorrect"

\* the branch _submit_answer takes: "Correct!", "Correct! Full answer: ", "Incorrect. Answer: "
Verdict(entry, term) ==
    IF UserTerms(entry) = CorrectTerms(term) THEN "Correct"
    ELSE IF UserTerms(entry) # {} /\ UserTerms(entry) \subseteq CorrectTerms(term) THEN "Partial"
    ELSE "Incorrect"

MaxTerms == 2

T_empty  == <<>>
T_a      == <<"a">>
T_upper  == <<"A", "-">>
T_space  == <<" ", "b">>
T_dash   == <<"-">>
T_gap    == <<"-", " ", "a">>

TermSet == {T_empty, T_a, T_upper, T_space, T_dash, T_gap}

RECURSIVE Join(_)
\* ",".join(terms)
Join(terms) ==
    IF terms = <<>> THEN <<>>
    ELSE IF Len(terms) = 1 THEN terms[1]
    ELSE terms[1] \o <<Comma>> \o Join(Tail(terms))

\* the texts of at most MaxTerms comma-separated terms
Texts == {Join(ts) : ts \in UNION {[1..n -> TermSet] : n \in 0..MaxTerms}}

InitMatch ==
    /\ user_answer \in Texts
    /\ correct_term \in Texts
    /\ verdict = "none"
    /\ ParseIdle
    /\ ShuffleIdle
    /\ AppIdle
    /\ HistoryIdle
    /\ QuizIdle

\* the comparison of _submit_answer on the entry text and the term of the current card
Match ==
    /\ verdict = "none"
    /\ verdict' = Verdict(user_answer, correct_term)
    /\ UNCHANGED <<user_answer, correct_term, parseVars, shuffleVars, appVars, historyVars, quizVars>>

NextMatch == Match

SpecMatch == InitMatch /\ [][NextMatch]_vars

-----------------------------------------------------------------------------
(* history.py: save_quiz_result and load_quiz_history *)

MaxSaves == 3
MaxClock == 2
MaxTotal == 10

Digits == <<"0", "1", "2", "3", "4", "5", "6", "7", "8", "9">>

RECURSIVE IntToStr(_)
\* str(n) for n >= 0, as csv.writer writes a number
IntToStr(n) ==
    IF n < 10 THEN <<Digits[n + 1]>>
    ELSE IntToStr(n \div 10) \o <<Digits[(n % 10) + 1]>>

\* the value of a digit character
DigitValue(c) == (CHOOSE k \in 1..Len(Digits) : Digits[k] = c) - 1

RECURSIVE StrToInt(_)
\* int(s) for a string of digits
StrToInt(s) ==
    IF Len(s) = 1 THEN DigitValue(s[1])
    ELSE 10 * StrToInt(SubSeq(s, 1, Len(s) - 1)) + DigitValue(s[Len(s)])

\* datetime.isoformat() of the clock value t
isoformat(t) == <<"T">> \o IntToStr(t)

F_time    == <<"t", "i", "m", "e">>
F_total   == <<"n", "u", "m", "b", "e", "r", "_", "o", "f", "_", "q", "u", "e", "s", "t", "i", "o", "n", "s">>
F_correct == <<"n", "u", "m", "b", "e", "r", "_", "o", "f", "_", "c", "o", "r", "r", "e", "c", "t", "_", "a", "n", "s", "w", "e", "r", "s">>

\* writer.writerow(fields): the fields joined by commas, one line of the file
writerow(fields) == Join(fields)

\* the header line
HeaderRow == writerow(<<F_time, F_total, F_correct>>)

\* a variant that writes the two numbers in the other order
RecordRow_swapped(t, total, correct) ==
    writerow(<<isoformat(t), IntToStr(correct), IntToStr(total)>>)

\* the line written for a result saved at clock value t
RecordRow(t, total, correct) ==
    writerow(<<isoformat(t), IntToStr(total), IntToStr(correct)>>)

\* a variant that opens the file in mode "w"
OpenForAppend_truncate(rows) == <<>>

\* open(history_path, "a"): the lines the file keeps when it is opened
OpenForAppend(rows) == rows

\* a variant that writes the header at every save
NeedsHeader_always(exists) == TRUE

\* if not file_exists
NeedsHeader(exists) == ~exists

\* the positions of the delimiters of a line
Delimiters(row) == {k \in 1..Len(row) : row[k] = Comma}

\* csv.reader: the fields of a line none of whose fields is quoted
Fields(row) ==
    LET ends == Delimiters(row) \cup {Len(row) + 1}
        EndOf(j) == CHOOSE e \in ends : Cardinality({d \in ends : d < e}) = j - 1
        StartOf(j) == IF j = 1 THEN 1 ELSE EndOf(j - 1) + 1
    IN [j \in 1..Cardinality(ends) |-> SubSeq(row, StartOf(j), EndOf(j) - 1)]

\* csv.DictReader: the value of the column called name in the row of fields
Column(header, fields, name) == fields[index(header, name) + 1]

\* the list load_quiz_history() returns in the current state of the file system
LoadQuizHistory ==
    IF ~file_exists \/ file_rows = <<>> THEN <<>>
    ELSE LET header == Fields(file_rows[1])
         IN [k \in 1..(Len(file_rows) - 1) |->
                LET fields == Fields(file_rows[k + 1])
                IN [time |-> Column(header, fields, F_time),
                    total |-> StrToInt(Column(header, fields, F_total)),
                    correct |-> StrToInt(Column(header, fields, F_correct))]]

\* the states of the file system before the first call: no directory, a directory
\* without the file, a file with the header line only
InitFiles ==
    \/ dir_exists = FALSE /\ file_exists = FALSE /\ file_rows = <<>>
    \/ dir_exists = TRUE /\ file_exists = FALSE /\ file_rows = <<>>
    \/ dir_exists = TRUE /\ file_exists = TRUE /\ file_rows = <<HeaderRow>>

InitHistory ==
    /\ InitFiles
    /\ now = 0
    /\ loaded = <<>>
    /\ saves = 0
    /\ last_call = [op |-> "none", total |-> 0, correct |-> 0, time |-> 0]
    /\ log_before = <<>>
    /\ ParseIdle
    /\ ShuffleIdle
    /\ AppIdle
    /\ MatchIdle
    /\ QuizIdle

\* save_quiz_result(total, correct): what it does to the file system and the records of the calls
WriteQuizResult(total, correct) ==
    /\ saves < MaxSaves
    /\ dir_exists' = TRUE
    /\ file_exists' = TRUE
    /\ file_rows' = OpenForAppend(file_rows)
                        \o (IF NeedsHeader(file_exists) THEN <<HeaderRow>> ELSE <<>>)
                        \o <<RecordRow(now, total, correct)>>
    /\ saves' = saves + 1
    /\ last_call' = [op |-> "save", total |-> total, correct |-> correct, time |-> now]
    /\ log_before' = LoadQuizHistory
    /\ UNCHANGED <<now, loaded>>

\* save_quiz_result(total, correct), called on its own
SaveQuizResult(total, correct) ==
    /\ WriteQuizResult(total, correct)
    /\ UNCHANGED <<parseVars, shuffleVars, appVars, matchVars, quizVars>>

\* a save of a quiz result: total questions, none or all of them answered well
Save ==
    \E total \in {1, MaxTotal} : \E correct \in {0, total} :
        SaveQuizResult(total, correct)

\* load_quiz_history(): what it does to the file system and the records of the calls
ReadQuizHistory ==
    /\ loaded' = LoadQuizHistory
    /\ last_call' = [op |-> "load", total |-> 0, correct |-> 0, time |-> now]
    /\ UNCHANGED <<dir_exists, file_exists, file_rows, now, saves, log_before>>

\* a variant that makes the directory, as save_quiz_result does
Load_mkdir ==
    /\ loaded' = LoadQuizHistory
    /\ dir_exists' = TRUE
    /\ last_call' = [op |-> "load", total |-> 0, correct |-> 0, time |-> now]
    /\ UNCHANGED <<file_exists, file_rows, now, saves, log_before, parseVars, shuffleVars, appVars, matchVars, quizVars>>

\* history = load_quiz_history(), called on its own
Load ==
    /\ ReadQuizHistory
    /\ UNCHANGED <<parseVars, shuffleVars, appVars, matchVars, quizVars>>

\* the wall clock read by datetime.now() advances
Tick ==
    /\ now < MaxClock
    /\ now' = now + 1
    /\ UNCHANGED <<dir_exists, file_exists, file_rows, loaded, saves, last_call, log_before, parseVars, shuffleVars, appVars, matchVars, quizVars>>

NextHistory ==
    \/ Save
    \/ Load
    \/ Tick

SpecHistory == InitHistory /\ [][NextHistory]_vars

-----------------------------------------------------------------------------
(* App, MainMenu and FlashCardApp *)

\* section_counts: the non-empty section names of the pool
SectionCounts(pool) == {c.section : c \in {x \in Elements(pool) : x.section # <<>>}}

\* MainMenu.get_selected_sections
get_selected_sections == {name \in DOMAIN section_vars : section_vars[name]}

\* a variant without the section test
Filtered_all(pool, selected) == pool

\* [c for c in self.cards if c.get("section") in selected]
Filtered(pool, selected) == SelectSeq(pool, LAMBDA c : c.section \in selected)

\* the list the composer is given: the filtered cards, or the pool when there are none
ComposerInput == 
    LET filtered == Filtered(app_cards, get_selected_sections)
    IN IF filtered = <<>> THEN app_cards ELSE filtered

\* whether the composer is given the list object App.cards itself
ComposerInputIsPool == Filtered(app_cards, get_selected_sections) = <<>>

\* the content of the list FlashCardApp.cards refers to
SessionCards == IF fc_alias THEN app_cards ELSE fc_cards

\* App.__init__: the pool is loaded and the main menu is shown
InitApp ==
    /\ app_cards \in CardLists(MaxPool)
    /\ section_vars = [name \in SectionCounts(app_cards) |-> TRUE]
    /\ card_count = MaxCount
    /\ screen = "menu"
    /\ shown = {"menu"}
    /\ results_screen = <<>>
    /\ scoreboard_screen = FALSE
    /\ arrow_keys = "none"
    /\ return_key = "none"
    /\ app_raised = "none"
    /\ fc_cards = <<>>
    /\ fc_alias = FALSE
    /\ original_order = <<>>
    /\ current_index = 0
    /\ is_flipped = FALSE
    /\ ParseIdle
    /\ ShuffleIdle
    /\ MatchIdle
    /\ HistoryIdle
    /\ QuizIdle

\* a click on a section checkbox
ToggleSection ==
    /\ "menu" \in shown
    /\ \E name \in DOMAIN section_vars :
           section_vars' = [section_vars EXCEPT ![name] = ~section_vars[name]]
    /\ UNCHANGED <<app_cards, card_count, screen, sessionVars, screenVars, parseVars, shuffleVars, matchVars, historyVars, quizVars>>

\* MainMenu._check_all
CheckAll ==
    /\ "menu" \in shown
    /\ DOMAIN section_vars # {}
    /\ section_vars' = [name \in DOMAIN section_vars |-> TRUE]
    /\ UNCHANGED <<app_cards, card_count, screen, sessionVars, screenVars, parseVars, shuffleVars, matchVars, historyVars, quizVars>>

\* MainMenu._uncheck_all
UncheckAll ==
    /\ "menu" \in shown
    /\ DOMAIN section_vars # {}
    /\ section_vars' = [name \in DOMAIN section_vars |-> FALSE]
    /\ UNCHANGED <<app_cards, card_count, screen, sessionVars, screenVars, parseVars, shuffleVars, matchVars, historyVars, quizVars>>

\* a new value in the card count spinbox
SetCardCount ==
    /\ "menu" \in shown
    /\ \E n \in 0..MaxCount : card_count' = n
    /\ UNCHANGED <<app_cards, section_vars, screen, sessionVars, screenVars, parseVars, shuffleVars, matchVars, historyVars, quizVars>>

\* main_menu.hide(), App._prepare_mode_cards, FlashCardApp(root, mode_cards, ..., mode),
\* whose _bind_keys takes the four root bindings, and flashcard_app.show()
StartMode(mode) ==
    /\ "menu" \in shown
    /\ \E result \in SpreadShuffleWithReplacement(ComposerInput, card_count) :
           LET same == ResultIsInput(ComposerInput, card_count)
               mode_cards == IF same THEN ComposerInput ELSE result
           IN /\ fc_alias' = (same /\ ComposerInputIsPool)
              /\ fc_cards' = IF fc_alias' THEN <<>> ELSE mode_cards
              /\ original_order' = mode_cards
    /\ current_index' = 0
    /\ is_flipped' = FALSE
    /\ screen' = mode
    /\ shown' = (shown \ {"menu"}) \cup {"cards"}
    /\ arrow_keys' = "cards"
    /\ return_key' = "cards"
    /\ app_raised' = "none"
    /\ UNCHANGED <<app_cards, menuVars, results_screen, scoreboard_screen, parseVars, shuffleVars, matchVars, historyVars, quizVars>>

\* App._start_simple_mode
StartSimpleMode == StartMode("simple")

\* App._start_inverted_mode
StartInvertedMode == StartMode("inverted")

\* App._start_quiz_mode: main_menu.hide(), then QuizCardApp is called with one argument
\* more than its __init__ takes and raises TypeError; flashcard_app is not assigned
StartQuizMode ==
    /\ "menu" \in shown
    /\ shown' = shown \ {"menu"}
    /\ app_raised' = "TypeError"
    /\ UNCHANGED <<app_cards, menuVars, screen, sessionVars, results_screen, scoreboard_screen,
                   arrow_keys, return_key, parseVars, shuffleVars, matchVars, historyVars, quizVars>>

\* App._start_scoreboard_mode: main_menu.hide(), ScoreboardScreen(root, ...), which
\* loads the history, and scoreboard_screen.show()
StartScoreboardMode ==
    /\ "menu" \in shown
    /\ shown' = (shown \ {"menu"}) \cup {"scoreboard"}
    /\ scoreboard_screen' = TRUE
    /\ app_raised' = "none"
    /\ ReadQuizHistory
    /\ UNCHANGED <<app_cards, menuVars, screen, sessionVars, results_screen, arrow_keys, return_key,
                   parseVars, shuffleVars, matchVars, quizVars>>

\* App._back_to_menu_from_scoreboard, called by the button of the scoreboard
BackToMenuFromScoreboard ==
    /\ "scoreboard" \in shown
    /\ shown' = (IF scoreboard_screen THEN shown \ {"scoreboard"} ELSE shown) \cup {"menu"}
    /\ scoreboard_screen' = FALSE
    /\ app_raised' = "none"
    /\ UNCHANGED <<app_cards, menuVars, screen, sessionVars, results_screen, arrow_keys, return_key,
                   parseVars, shuffleVars, matchVars, historyVars, quizVars>>

\* the card screen is on show, with its buttons
CardsShown == "cards" \in shown

\* a variant of _next_card without the test of the last card
NextCard_unbounded ==
    /\ CardsShown \/ arrow_keys = "cards"
    /\ IF SessionCards # <<>>
       THEN current_index' = current_index + 1 /\ is_flipped' = FALSE
       ELSE UNCHANGED <<current_index, is_flipped>>
    /\ UNCHANGED <<app_cards, menuVars, screen, screenVars, fc_cards, fc_alias, original_order, parseVars, shuffleVars, matchVars, historyVars, quizVars>>

\* FlashCardApp._next_card, called by the Next button and by <Right>
NextCard ==
    /\ CardsShown \/ arrow_keys = "cards"
    /\ IF SessionCards # <<>> /\ current_index < Len(SessionCards) - 1
       THEN current_index' = current_index + 1 /\ is_flipped' = FALSE
       ELSE UNCHANGED <<current_index, is_flipped>>
    /\ UNCHANGED <<app_cards, menuVars, screen, screenVars, fc_cards, fc_alias, original_order, parseVars, shuffleVars, matchVars, historyVars, quizVars>>

\* FlashCardApp._prev_card, called by the Previous button and by <Left>
PrevCard ==
    /\ CardsShown \/ arrow_keys = "cards"
    /\ IF SessionCards # <<>> /\ current_index > 0
       THEN current_index' = current_index - 1 /\ is_flipped' = FALSE
       ELSE UNCHANGED <<current_index, is_flipped>>
    /\ UNCHANGED <<app_cards, menuVars, screen, screenVars, fc_cards, fc_alias, original_order, parseVars, shuffleVars, matchVars, historyVars, quizVars>>

\* FlashCardApp._flip_card, called by a click on the card, by <space> and by <Return>
FlipCard ==
    /\ CardsShown \/ arrow_keys = "cards" \/ return_key = "cards"
    /\ is_flipped' = ~is_flipped
    /\ UNCHANGED <<app_cards, menuVars, screen, screenVars, fc_cards, fc_alias, original_order, current_index, parseVars, shuffleVars, matchVars, historyVars, quizVars>>

\* a variant of _shuffle_cards on a deck whose original_order is the deck list itself
ShuffleCards_shared ==
    /\ CardsShown
    /\ \E order \in Shuffles(SessionCards) :
           /\ IF fc_alias
              THEN app_cards' = order /\ fc_cards' = fc_cards
              ELSE fc_cards' = order /\ app_cards' = app_cards
           /\ original_order' = order
    /\ current_index' = 0
    /\ is_flipped' = FALSE
    /\ UNCHANGED <<menuVars, screen, screenVars, fc_alias, parseVars, shuffleVars, matchVars, historyVars, quizVars>>

\* FlashCardApp._shuffle_cards, called by the Shuffle button: random.shuffle(self.cards)
\* reorders the list object in place
ShuffleCards ==
    /\ CardsShown
    /\ \E order \in Shuffles(SessionCards) :
           IF fc_alias
           THEN app_cards' = order /\ fc_cards' = fc_cards
           ELSE fc_cards' = order /\ app_cards' = app_cards
    /\ current_index' = 0
    /\ is_flipped' = FALSE
    /\ UNCHANGED <<menuVars, screen, screenVars, fc_alias, original_order, parseVars, shuffleVars, matchVars, historyVars, quizVars>>

\* App._back_to_menu, called by the Menu button of the card screen; the FlashCardApp is
\* no longer held by App but the root bindings still call it
BackToMenu ==
    /\ CardsShown
    /\ shown' = (IF screen # "menu" THEN shown \ {"cards"} ELSE shown) \cup {"menu"}
    /\ screen' = "menu"
    /\ app_raised' = "none"
    /\ UNCHANGED <<app_cards, menuVars, sessionVars, results_screen, scoreboard_screen, arrow_keys,
                   return_key, parseVars, shuffleVars, matchVars, historyVars, quizVars>>

NextApp ==
    \/ ToggleSection
    \/ CheckAll
    \/ UncheckAll
    \/ SetCardCount
    \/ StartSimpleMode
    \/ StartInvertedMode
    \/ StartQuizMode
    \/ StartScoreboardMode
    \/ BackToMenuFromScoreboard
    \/ NextCard
    \/ PrevCard
    \/ FlipCard
    \/ ShuffleCards
    \/ BackToMenu

SpecApp == InitApp /\ [][NextApp]_vars

-----------------------------------------------------------------------------
(* App: the results of a quiz *)

MaxControllerPool == 1

\* App.__init__ with a history file system in any of its initial states
InitController ==
    /\ app_cards \in CardLists(MaxControllerPool)
    /\ section_vars = [name \in SectionCounts(app_cards) |-> TRUE]
    /\ card_count = MaxCount
    /\ screen = "menu"
    /\ shown = {"menu"}
    /\ results_screen = <<>>
    /\ scoreboard_screen = FALSE
    /\ arrow_keys = "none"
    /\ return_key = "none"
    /\ app_raised = "none"
    /\ fc_cards = <<>>
    /\ fc_alias = FALSE
    /\ original_order = <<>>
    /\ current_index = 0
    /\ is_flipped = FALSE
    /\ InitFiles
    /\ now = 0
    /\ loaded = <<>>
    /\ saves = 0
    /\ last_call = [op |-> "none", total |-> 0, correct |-> 0, time |-> 0]
    /\ log_before = <<>>
    /\ ParseIdle
    /\ ShuffleIdle
    /\ MatchIdle
    /\ QuizIdle

\* a variant that hands the two numbers to save_quiz_result in the order it receives them
OnQuizComplete_swapped(correct, total) ==
    /\ WriteQuizResult(correct, total)
    /\ screen' = "menu"
    /\ results_screen' = <<[correct |-> correct, total |-> total]>>
    /\ shown' = (IF screen # "menu" THEN shown \ {"cards"} ELSE shown) \cup {"results"}
    /\ return_key' = "results"
    /\ app_raised' = "none"
    /\ UNCHANGED <<app_cards, menuVars, sessionVars, scoreboard_screen, arrow_keys,
                   parseVars, shuffleVars, matchVars, quizVars>>

\* App._on_quiz_complete(correct, total): save_quiz_result(total, correct); the card
\* screen is hidden and let go; QuizResultsScreen(root, correct, total, ...), whose
\* _setup_ui takes the root binding of <Return>; results_screen.show()
OnQuizComplete(correct, total) ==
    /\ WriteQuizResult(total, correct)
    /\ screen' = "menu"
    /\ results_screen' = <<[correct |-> correct, total |-> total]>>
    /\ shown' = (IF screen # "menu" THEN shown \ {"cards"} ELSE shown) \cup {"results"}
    /\ return_key' = "results"
    /\ app_raised' = "none"
    /\ UNCHANGED <<app_cards, menuVars, sessionVars, scoreboard_screen, arrow_keys,
                   parseVars, shuffleVars, matchVars, quizVars>>

\* the completion of a quiz reported to App while the card screen is on show: all the
\* answers wrong, or all of them right
QuizComplete ==
    /\ CardsShown
    /\ \E correct \in {0, MaxTotal} : OnQuizComplete(correct, MaxTotal)

\* App._back_to_menu_from_results, called by the button of the results screen and by
\* QuizResultsScreen._handle_return, which the root binding of <Return> calls
BackToMenuFromResults ==
    /\ "results" \in shown \/ return_key = "results"
    /\ shown' = (IF results_screen # <<>> THEN shown \ {"results"} ELSE shown) \cup {"menu"}
    /\ results_screen' = <<>>
    /\ app_raised' = "none"
    /\ UNCHANGED <<app_cards, menuVars, screen, sessionVars, scoreboard_screen, arrow_keys,
                   return_key, parseVars, shuffleVars, matchVars, historyVars, quizVars>>

NextController ==
    \/ StartSimpleMode
    \/ StartInvertedMode
    \/ StartQuizMode
    \/ StartScoreboardMode
    \/ BackToMenuFromScoreboard
    \/ FlipCard
    \/ BackToMenu
    \/ QuizComplete
    \/ BackToMenuFromResults

SpecController == InitController /\ [][NextController]_vars

-----------------------------------------------------------------------------
(* QuizCardApp: a quiz session *)

\* the texts typed into the entry
EntrySet == {T_empty, T_a, T_space}

\* the card shown
CurrentCard == fc_cards[current_index + 1]

\* QuizCardApp(root, cards): the session after construction, shown on a root of its own,
\* with a history file system in any of its initial states
InitQuiz ==
    /\ fc_cards \in CardLists(MaxDeck)
    /\ current_index = 0
    /\ current_answered = FALSE
    /\ feedback = "none"
    /\ answers = <<>>
    /\ quiz_raised = "none"
    /\ app_cards = <<>>
    /\ section_vars = <<>>
    /\ card_count = 0
    /\ screen = "none"
    /\ ScreensIdle
    /\ fc_alias = FALSE
    /\ original_order = <<>>
    /\ is_flipped = FALSE
    /\ InitFiles
    /\ now = 0
    /\ loaded = <<>>
    /\ saves = 0
    /\ last_call = [op |-> "none", total |-> 0, correct |-> 0, time |-> 0]
    /\ log_before = <<>>
    /\ ParseIdle
    /\ ShuffleIdle
    /\ MatchIdle

\* a variant of _submit_answer without the early return of an answered card
SubmitAnswer_again(text) ==
    /\ fc_cards # <<>>
    /\ current_answered' = TRUE
    /\ feedback' = Verdict(text, CurrentCard.term)
    /\ answers' = Append(answers, [card |-> current_index, verdict |-> Verdict(text, CurrentCard.term)])
    /\ quiz_raised' = "none"
    /\ UNCHANGED <<appVars, parseVars, shuffleVars, matchVars, historyVars>>

\* _submit_answer with text in the entry: nothing for an answered card; on an empty
\* deck self.cards[self.current_index] raises IndexError before anything is assigned
SubmitAnswer(text) ==
    IF current_answered THEN UNCHANGED vars
    ELSE IF fc_cards = <<>>
    THEN /\ quiz_raised' = "IndexError"
         /\ UNCHANGED <<current_answered, feedback, answers, appVars, parseVars, shuffleVars,
                         matchVars, historyVars>>
    ELSE /\ current_answered' = TRUE
         /\ feedback' = Verdict(text, CurrentCard.term)
         /\ answers' = Append(answers, [card |-> current_index, verdict |-> Verdict(text, CurrentCard.term)])
         /\ quiz_raised' = "none"
         /\ UNCHANGED <<appVars, parseVars, shuffleVars, matchVars, historyVars>>

\* the Submit button
Submit == \E text \in EntrySet : SubmitAnswer(text)

\* BaseCardApp._next_card of the quiz session, then _show_card: the entry and the
\* feedback are cleared and current_answered is reset
QuizNextCard ==
    IF fc_cards # <<>> /\ current_index < Len(fc_cards) - 1
    THEN /\ current_index' = current_index + 1
         /\ current_answered' = FALSE
         /\ feedback' = "none"
         /\ quiz_raised' = "none"
         /\ UNCHANGED <<answers, app_cards, menuVars, screen, screenVars, fc_cards, fc_alias,
                         original_order, is_flipped, parseVars, shuffleVars, matchVars, historyVars>>
    ELSE UNCHANGED vars

\* the Return key: _handle_return
HandleReturn ==
    \E text \in EntrySet :
        IF current_answered THEN QuizNextCard ELSE SubmitAnswer(text)

NextQuiz ==
    \/ Submit
    \/ HandleReturn

SpecQuiz == InitQuiz /\ [][NextQuiz]_vars

Init == InitParse \/ InitShuffle \/ InitApp \/ InitMatch \/ InitHistory \/ InitController \/ InitQuiz
Next == NextParse \/ NextShuffle \/ NextApp \/ NextMatch \/ NextHistory \/ NextController \/ NextQuiz
Spec == Init /\ [][Next]_vars

-----------------------------------------------------------------------------
(* Properties of parse_markdown_tables *)

\* the line under examination is a data row of a table
AtDataRow ==
    /\ pc = "rows"
    /\ i < Len(lines)
    /\ startswith(strip(LineAt(i)), <<Pipe>>)

\* the non-empty trimmed fields of a row, in their order
NonEmptyFields(row) == SelectSeq(SplitCells(row), LAMBDA c : c # <<>>)

\* the trimmed fields of a row without the two bounding ones, empty interior fields kept
InteriorFields(row) ==
    LET f == SplitCells(row)
        lo == IF f[1] = <<>> THEN 2 ELSE 1
        hi == IF f[Len(f)] = <<>> THEN Len(f) - 1 ELSE Len(f)
    IN SubSeq(f, lo, hi)

\* s has no two equal elements
NoDuplicates(s) == \A a, b \in 1..Len(s) : s[a] = s[b] => a = b

\* name occurs in the sequence s
InSeq(s, name) == \E k \in 1..Len(s) : s[k] = name

\* C1: every data row with at least two cells appends exactly one card, built from
\* that row, to the end of the cards; a data row with fewer cells appends nothing and
\* the scan goes on with the next line of the table; no other step changes the cards.
C1_Step ==
    IF AtDataRow
    THEN /\ i' = i + 1
         /\ pc' = "rows"
         /\ LET f == NonEmptyFields(strip(LineAt(i))) IN
                IF Len(f) >= 2
                THEN /\ Len(cards') = Len(cards) + 1
                     /\ SubSeq(cards', 1, Len(cards)) = cards
                     /\ cards'[Len(cards')].term = f[1]
                ELSE cards' = cards
    ELSE cards' = cards

C1_OneCardPerRow == [][C1_Step]_vars

\* a row with one cell was skipped and the row after it produced the only card
C1_Witness ==
    /\ pc = "done"
    /\ lines = <<L_row2, L_sep, L_sep, L_row2>>
    /\ Len(cards) = 1

\* C2: every card has a non-empty term, a non-empty interpretation and a non-empty
\* section.
C2_CardsNonEmpty ==
    \A k \in 1..Len(cards) :
        /\ cards[k].term # <<>>
        /\ cards[k].interpretation # <<>>
        /\ cards[k].section # <<>>

\* C3: the card of a data row takes its term, interpretation and extra from the
\* first, second and third field between the bounding delimiters, an empty interior
\* field keeping its column.
C3_Step ==
    (AtDataRow /\ Len(cards') = Len(cards) + 1) =>
        LET f == InteriorFields(strip(LineAt(i)))
            c == cards'[Len(cards')]
        IN /\ Len(f) >= 2
           /\ c.term = f[1]
           /\ c.interpretation = f[2]
           /\ c.extra = IF Len(f) > 2 THEN f[3] ELSE <<>>

C3_InteriorCellsKept == [][C3_Step]_vars

\* C4: the card of a row with exactly two cells has an empty extra; the card of a
\* row with three or more cells has the first, second and third cell as term,
\* interpretation and extra, whatever the cells after the third are.
C4_Step ==
    AtDataRow =>
        LET f == NonEmptyFields(strip(LineAt(i)))
            c == cards'[Len(cards')]
        IN /\ Len(f) = 2 =>
                /\ Len(cards') = Len(cards) + 1
                /\ c.term = f[1] /\ c.interpretation = f[2] /\ c.extra = <<>>
           /\ Len(f) >= 3 =>
                /\ Len(cards') = Len(cards) + 1
                /\ c.term = f[1] /\ c.interpretation = f[2] /\ c.extra = f[3]

C4_ExtraColumn == [][C4_Step]_vars

\* a row with four cells produced a card and a row with two cells produced a card
C4_Witness ==
    /\ pc = "done"
    /\ \E k \in 1..Len(cards) : cards[k].extra = <<"c">>
    /\ \E k \in 1..Len(cards) : cards[k].extra = <<>>

\* C5: the catalog never holds a name twice and only grows at its end; the current
\* section is "General" until a heading is recognized and then the text of the last
\* recognized heading; every card carries the current section of its table.
C5_Step ==
    /\ NoDuplicates(sections')
    /\ \/ sections' = sections
       \/ \E name \in {current_section, current_section'} : sections' = Append(sections, name)
    /\ IF pc = "scan" /\ i < Len(lines) /\ IsHeadingAt(i)
       THEN current_section' = strip(LineAt(i))
       ELSE current_section' = current_section
    /\ Len(cards') > Len(cards) => cards'[Len(cards')].section = current_section
    /\ (pc' = "done" /\ lines = <<L_row2, L_sep, L_row2, L_row2>>) =>
           /\ sections' = <<General>>
           /\ Len(cards') = 2
           /\ \A k \in 1..2 : cards'[k].section = General

C5_Catalog == [][C5_Step]_vars

\* a headingless table with one card, then a heading: two names in first-seen order
C5_Witness ==
    /\ pc = "done"
    /\ lines = <<L_row2, L_sep, L_row2, L_text, L_marker>>
    /\ sections = <<General, <<"A">>>>
    /\ Len(cards) = 1 /\ cards[1].section = General

\* C6 as stated: the catalog changes only when a table header row followed by a
\* separator row is recognized, and it then receives the current section.
C6_OnlyAtTable_Step ==
    sections' # sections =>
        /\ pc = "scan" /\ i < Len(lines)
        /\ ~IsHeadingAt(i)
        /\ IsTableHeader(strip(LineAt(i)))
        /\ HasSeparatorAt(i)
        /\ sections' = Append(sections, current_section)

C6_OnlyAtTable == [][C6_OnlyAtTable_Step]_vars

\* C6 amended: a name enters the catalog when its heading is recognized, or when a
\* table header row is examined while it is the current section, with or without a
\* separator row; the catalog changes in no other way, and a document without a
\* heading and without a table header row has an empty catalog.
C6_Step ==
    /\ (pc = "scan" /\ i < Len(lines) /\ IsHeadingAt(i)) =>
           InSeq(sections', strip(LineAt(i)))
    /\ (pc = "scan" /\ i < Len(lines) /\ ~IsHeadingAt(i) /\ IsTableHeader(strip(LineAt(i)))) =>
           InSeq(sections', current_section)
    /\ sections' # sections =>
           /\ pc = "scan" /\ i < Len(lines)
           /\ \/ IsHeadingAt(i) /\ sections' = Append(sections, strip(LineAt(i)))
              \/ /\ ~IsHeadingAt(i)
                 /\ IsTableHeader(strip(LineAt(i)))
                 /\ sections' = Append(sections, current_section)
    /\ (\A k \in 0..(Len(lines) - 1) : ~IsHeadingAt(k) /\ ~IsTableHeader(strip(LineAt(k)))) =>
           sections' = <<>>

C6_AtHeadingOrHeader == [][C6_Step]_vars

\* a heading without any table is in the catalog
C6_Witness ==
    /\ pc = "done"
    /\ lines = <<L_text, L_marker>>
    /\ sections = <<<<"A">>>>
    /\ cards = <<>>

-----------------------------------------------------------------------------
(* Properties of the deck composition *)

\* a card session is shown
InSession == screen \in {"simple", "inverted"}

\* the number of occurrences of card c in the list l
Occurrences(l, c) == Cardinality({k \in 1..Len(l) : l[k] = c})

\* the pool cards whose section is selected
SelectedPoolCards == {c \in Elements(app_cards) : c.section \in get_selected_sections}

\* C7: the deck of a session has exactly card_count cards when the pool is not
\* empty, also when card_count exceeds the number of available cards, and no card
\* when the pool is empty.
C7_DeckLength ==
    InSession =>
        Len(SessionCards) = IF app_cards # <<>> THEN card_count ELSE 0

\* a deck of two cards composed from a pool of one card
C7_Witness ==
    /\ InSession
    /\ Len(app_cards) = 1
    /\ card_count = 2
    /\ SessionCards = <<app_cards[1], app_cards[1]>>

\* C8: when some pool card has a selected section, every card of the deck is a pool
\* card with a selected section; otherwise every card of the deck is a pool card and
\* the deck is not empty merely because of the selection.
C8_DeckFromSelection ==
    InSession =>
        IF SelectedPoolCards # {}
        THEN \A k \in 1..Len(SessionCards) : SessionCards[k] \in SelectedPoolCards
        ELSE /\ \A k \in 1..Len(SessionCards) : SessionCards[k] \in Elements(app_cards)
             /\ (app_cards # <<>> /\ card_count > 0) => SessionCards # <<>>

\* a pool with two sections, one of them selected, and a deck of that section only
C8_Witness ==
    /\ InSession
    /\ app_cards = <<CardA1, CardB1>>
    /\ get_selected_sections = {<<"B">>}
    /\ SessionCards = <<CardB1, CardB1>>

\* C9: the list returned by spread_shuffle has the length of its input and holds
\* every card exactly as many times as the input does.
C9_Permutation ==
    shuffle_pc = "returned" =>
        /\ Len(shuffle_out) = Len(shuffle_in)
        /\ \A c \in CardSet : Occurrences(shuffle_out, c) = Occurrences(shuffle_in, c)

\* an input with a repeated card and two sections, returned in another order
C9_Witness ==
    /\ shuffle_pc = "returned"
    /\ shuffle_in = <<CardA1, CardA1, CardB1, CardA2>>
    /\ shuffle_out = <<CardA2, CardB1, CardA1, CardA1>>

\* C10: no step changes the pool, and the list of a session is never the pool list
\* itself.
C10_Step ==
    /\ app_cards' = app_cards
    /\ ~fc_alias'

-----------------------------------------------------------------------------
(* Claims about the spread of sections *)

\* the number of cards of section s in l
SectionSize(l, s) == Cardinality({k \in 1..Len(l) : l[k].section = s})

\* the sections present in l
SectionsOf(l) == {l[k].section : k \in 1..Len(l)}

\* the size of the largest section group of l, 0 for the empty list
LargestGroup(l) ==
    IF l = <<>> THEN 0
    ELSE CHOOSE n \in 0..Len(l) :
            /\ \E s \in SectionsOf(l) : SectionSize(l, s) = n
            /\ \A s \in SectionsOf(l) : SectionSize(l, s) <= n

\* the size of the second-largest section group of l, 0 when there is no second section
SecondGroup(l) ==
    IF Cardinality(SectionsOf(l)) <= 1 THEN 0
    ELSE LET big == CHOOSE s \in SectionsOf(l) : SectionSize(l, s) = LargestGroup(l)
             rest == SectionsOf(l) \ {big}
         IN CHOOSE n \in 0..Len(l) :
                /\ \E s \in rest : SectionSize(l, s) = n
                /\ \A s \in rest : SectionSize(l, s) <= n

\* whether the cards at positions a..b of l are all of one section
SameSection(l, a, b) == \A k \in a..b : l[k].section = l[a].section

\* the length of the longest run of consecutive cards of one section, 0 for the empty list
LongestRun(l) ==
    IF l = <<>> THEN 0
    ELSE CHOOSE n \in 1..Len(l) :
            /\ \E a \in 1..(Len(l) - n + 1) : SameSection(l, a, a + n - 1)
            /\ \A m \in (n + 1)..Len(l) :
                   \A a \in 1..(Len(l) - m + 1) : ~SameSection(l, a, a + m - 1)

\* C11: in the list returned by spread_shuffle the longest run of cards of one section
\* is at most the size of the largest section group of the input minus the size of the
\* second-largest (0 when there is one section only) plus one; for four cards of one
\* section and two of another the run is never longer than three.
C11_RunBound ==
    shuffle_pc = "returned" =>
        /\ LongestRun(shuffle_out) <= LargestGroup(shuffle_in) - SecondGroup(shuffle_in) + 1
        /\ (LargestGroup(shuffle_in) = 4 /\ SecondGroup(shuffle_in) = 2
                /\ Cardinality(SectionsOf(shuffle_in)) = 2)
             => LongestRun(shuffle_out) <= 3

\* four cards of one section and two of another, returned with a run of three: the
\* larger section is visited last in each round and is alone in the last two rounds
C11_Witness ==
    /\ shuffle_pc = "returned"
    /\ shuffle_in = SpreadFixture
    /\ LongestRun(shuffle_out) = 3

-----------------------------------------------------------------------------
(* Claims about the answer matcher *)

\* the normalized term set of a text: its comma-separated terms, each trimmed, lowercased
\* and freed of hyphens, the empty ones dropped
NormalizedTerms(text) == Terms(text)

\* C12: the matcher gives exactly one verdict: Correct exactly when the normalized term
\* sets of the answer and of the term are equal, Partial exactly when they differ and
\* the answer's set is a non-empty subset of the term's, Incorrect in every other case,
\* an answer with all the correct terms and one more included.
C12_ThreeWay ==
    verdict # "none" =>
        LET u == NormalizedTerms(user_answer)
            c == NormalizedTerms(correct_term)
        IN /\ verdict \in {"Correct", "Partial", "Incorrect"}
           /\ verdict = "Correct" <=> u = c
           /\ verdict = "Partial" <=> (u # c /\ u # {} /\ u \subseteq c)
           /\ verdict = "Incorrect" <=> (u # c /\ ~(u # {} /\ u \subseteq c))
           /\ (c \subseteq u /\ u # c) => verdict = "Incorrect"

\* C13 as stated: the empty answer is Incorrect against every non-empty term text.
C13_EmptyIncorrect ==
    (verdict # "none" /\ user_answer = <<>> /\ correct_term # <<>>) =>
        verdict = "Incorrect"

\* C13: the empty answer is Incorrect against every term text that holds at least one
\* non-empty normalized term.
C13_EmptyAgainstTerms ==
    (verdict # "none" /\ user_answer = <<>> /\ NormalizedTerms(correct_term) # {}) =>
        verdict = "Incorrect"

\* the empty answer judged against a term text with two terms
C13_Witness ==
    /\ user_answer = <<>>
    /\ correct_term = Join(<<T_a, T_space>>)
    /\ verdict = "Incorrect"

\* the text s with only whitespace added before and after it
Padded(y, x) ==
    \E a \in 0..Len(y) : \E b \in a..Len(y) :
        /\ SubSeq(y, a + 1, b) = x
        /\ \A k \in (1..a) \cup ((b + 1)..Len(y)) : y[k] = " "

\* y is x up to letter case, hyphens, and whitespace added around its comma-separated
\* terms (the first and the last include the whitespace around the whole text)
IsVariation(x, y) ==
    LET xs == split(x, Comma)
        ys == split(y, Comma)
    IN /\ Len(xs) = Len(ys)
       /\ \A k \in 1..Len(xs) :
              Padded(removeHyphens(lower(ys[k])), removeHyphens(lower(xs[k])))

\* C14: a non-empty text and a variation of it in letter case, hyphens or surrounding
\* whitespace are judged Correct against each other, in both directions.
C14_VariationsCorrect ==
    (/\ verdict # "none"
     /\ user_answer # <<>>
     /\ correct_term # <<>>
     /\ IsVariation(correct_term, user_answer) \/ IsVariation(user_answer, correct_term)) =>
        verdict = "Correct"

\* the term lists obtained from terms by reordering, or by repeating one term
Rearranged(terms) ==
    Shuffles(terms)
        \cup {Append(terms, terms[k]) : k \in 1..Len(terms)}
        \cup {<<terms[k]>> \o terms : k \in 1..Len(terms)}

\* C15: the verdict is the one of every answer, and of every term text, whose
\* comma-separated terms are reordered or repeated.
C15_OrderAndRepeats ==
    verdict # "none" =>
        /\ \A ts \in Rearranged(split(user_answer, Comma)) :
               Verdict(Join(ts), correct_term) = verdict
        /\ \A ts \in Rearranged(split(correct_term, Comma)) :
               Verdict(user_answer, Join(ts)) = verdict

\* a two-term answer judged Correct against the same terms in the other order
C15_Witness ==
    /\ user_answer = Join(<<T_space, T_a>>)
    /\ correct_term = Join(<<T_a, T_space>>)
    /\ verdict = "Correct"

-----------------------------------------------------------------------------
(* Claims about the history log *)

\* a is a prefix of b
IsPrefix(a, b) == Len(a) <= Len(b) /\ SubSeq(b, 1, Len(a)) = a

\* the step is a call of load_quiz_history
LoadStep == last_call'.op = "load" /\ now' = now /\ saves' = saves

\* C16: after save_quiz_result(total, correct) the list load_quiz_history returns is one
\* element longer than the list it returned before the call, and its last element holds
\* the total and the correct count just saved, as integers, with the timestamp read at
\* the call.
C16_SaveThenLoad ==
    last_call.op = "save" =>
        LET after == LoadQuizHistory
        IN /\ Len(after) = Len(log_before) + 1
           /\ after[Len(after)].total \in Nat
           /\ after[Len(after)].correct \in Nat
           /\ after[Len(after)] = [time |-> isoformat(last_call.time),
                                   total |-> last_call.total,
                                   correct |-> last_call.correct]

\* a second result, of ten questions all answered well, saved one tick after the first
C16_Witness ==
    /\ saves = 2
    /\ last_call = [op |-> "save", total |-> MaxTotal, correct |-> MaxTotal, time |-> 1]
    /\ Len(log_before) = 1
    /\ LoadQuizHistory = <<[time |-> isoformat(0), total |-> 1, correct |-> 0],
                           [time |-> isoformat(1), total |-> MaxTotal, correct |-> MaxTotal]>>

\* no step shortens the list returned by load_quiz_history, and a load leaves the file
\* system as it was
C17_Step ==
    /\ IsPrefix(loaded, loaded')
    /\ LoadStep => UNCHANGED filesVars

\* C17: the log only grows at its end: the list returned by a load is a prefix of what
\* a load returns at any later time, hence of the list returned by every later load, and
\* a load leaves the file system as it was.
C17_AppendOnly == [](IsPrefix(loaded, LoadQuizHistory)) /\ [][C17_Step]_vars

\* a load that returned one entry, followed by a save, followed by a load that returned two
C17_Witness ==
    /\ last_call.op = "load"
    /\ saves = 2
    /\ Len(loaded) = 2
    /\ loaded[1].time = isoformat(0)
    /\ loaded[2].time = isoformat(2)

\* the line is a record: three fields, of which the first is a timestamp
IsRecordRow(row) ==
    /\ row # HeaderRow
    /\ Len(Fields(row)) = 3
    /\ Head(Fields(row)[1]) = "T"

\* C18: whenever the history file exists its first line is the header, the header occurs
\* once, and one record line per save follows it; after the first save the file and its
\* directory exist.
C18_HeaderOnce ==
    /\ file_exists =>
          /\ file_rows # <<>>
          /\ file_rows[1] = HeaderRow
          /\ Cardinality({k \in 1..Len(file_rows) : file_rows[k] = HeaderRow}) = 1
          /\ Len(file_rows) = 1 + saves
          /\ \A k \in 2..Len(file_rows) : IsRecordRow(file_rows[k])
    /\ saves > 0 => (dir_exists /\ file_exists)
    /\ ~file_exists => saves = 0

\* two saves into a file that did not exist: the header and two records
C18_Witness ==
    /\ saves = 2
    /\ file_rows = <<HeaderRow, RecordRow(0, 1, 1), RecordRow(0, MaxTotal, 0)>>

\* C19: a call of load_quiz_history while the history file does not exist returns the
\* empty list and creates neither the file nor its directory; a call while the file holds
\* the header line only returns the empty list.
C19_Step ==
    /\ (LoadStep /\ ~file_exists) => (loaded' = <<>> /\ UNCHANGED filesVars)
    /\ (LoadStep /\ file_exists /\ file_rows = <<HeaderRow>>) => loaded' = <<>>

C19_LoadWithoutHistory == [][C19_Step]_vars

\* a load made while neither the file nor its directory exists
C19_Witness ==
    /\ last_call.op = "load"
    /\ ~dir_exists
    /\ ~file_exists
    /\ loaded = <<>>

-----------------------------------------------------------------------------
(* Claims about the quiz session *)

\* every card of the deck of the quiz session has been answered
QuizCompleted ==
    /\ feedback # "idle"
    /\ fc_cards # <<>>
    /\ \A k \in 0..(Len(fc_cards) - 1) : \E j \in 1..Len(answers) : answers[j].card = k

\* the number of answers of the session shown as correct
CorrectAnswers ==
    Cardinality({j \in 1..Len(answers) : answers[j].verdict \in {"Correct", "Partial"}})

\* C20: once every card of the deck of a quiz session has been answered, exactly one
\* result has been appended to the history log, and it carries the number of cards of
\* the session and the number of its correct answers.
C20_CompletedSessionSaved ==
    QuizCompleted =>
        /\ saves = 1
        /\ Len(LoadQuizHistory) = 1
        /\ LoadQuizHistory[1].total = Len(fc_cards)
        /\ LoadQuizHistory[1].correct = CorrectAnswers

\* no card of the session has been evaluated twice
NoCardTwice ==
    \A j, k \in 1..Len(answers) : answers[j].card = answers[k].card => j = k

\* C26, the steps: an answer is evaluated only while the card is unanswered and the
\* card is answered afterwards; while the card is answered nothing is evaluated; the
\* index moves only from an answered card, by one, to an unanswered one; at the last
\* card, once it is answered, neither the index nor the answered flag changes; the
\* Return key evaluates the entry on an unanswered card and moves on from an answered
\* card that is not the last.
C26_Step ==
    /\ answers' # answers =>
           /\ ~current_answered /\ current_answered'
           /\ current_index' = current_index
           /\ Len(answers') = Len(answers) + 1
    /\ current_answered => answers' = answers
    /\ current_index' # current_index =>
           /\ current_answered /\ ~current_answered'
           /\ current_index' = current_index + 1
    /\ (current_answered /\ current_index = Len(fc_cards) - 1) =>
           /\ current_index' = current_index
           /\ current_answered'
    /\ HandleReturn =>
           /\ (~current_answered /\ fc_cards # <<>>) =>
                  (current_answered' /\ Len(answers') = Len(answers) + 1)
           /\ (current_answered /\ current_index < Len(fc_cards) - 1) =>
                  (current_index' = current_index + 1 /\ ~current_answered')

\* C26: in a quiz session each displayed card is evaluated at most once.
C26_EvaluatedOnce == [](NoCardTwice) /\ [][C26_Step]_vars

\* the last of three cards has been answered, after a move from each card before it
C26_Witness ==
    /\ Len(fc_cards) = 3
    /\ current_index = 2
    /\ current_answered
    /\ Len(answers) = 3
    /\ quiz_raised = "none"

\* C27: in a quiz session on an empty deck no operation raises an error and the index
\* stays 0.
C27_EmptyDeckSafe ==
    fc_cards = <<>> => (quiz_raised = "none" /\ current_index = 0)

-----------------------------------------------------------------------------
(* Claims about the rounds of spread_shuffle *)

\* the position in l of the r-th card of section s
Pos(l, s, r) ==
    CHOOSE p \in 1..Len(l) :
        /\ l[p].section = s
        /\ Cardinality({q \in 1..p : l[q].section = s}) = r

\* C22: spread_shuffle merges in rounds. For any two sections that both hold at least
\* r+1 cards, the r-th output card of each of them comes before the (r+1)-th output
\* card of either, and the two sections are met in the same order in round r+1 as in
\* round r (one order of the sections serves every round).
C22_Rounds ==
    shuffle_pc = "returned" =>
        \A s, t \in SectionsOf(shuffle_out) : \A r \in 1..Len(shuffle_out) :
            (SectionSize(shuffle_out, s) >= r + 1 /\ SectionSize(shuffle_out, t) >= r + 1) =>
                /\ Pos(shuffle_out, s, r) < Pos(shuffle_out, t, r + 1)
                /\ (Pos(shuffle_out, s, r) < Pos(shuffle_out, t, r)
                        => Pos(shuffle_out, s, r + 1) < Pos(shuffle_out, t, r + 1))

\* two sections of two cards or more each have been merged, the second-listed first
C22_Witness ==
    /\ shuffle_pc = "returned"
    /\ shuffle_in = SpreadFixture
    /\ shuffle_out[1].section = CardB1.section
    /\ SectionSize(shuffle_out, CardA1.section) >= 2
    /\ SectionSize(shuffle_out, CardB1.section) >= 2

-----------------------------------------------------------------------------
(* Claims about the recognition of headings *)

\* s is made of = characters only, four of them or more
OnlyEquals(s) == Len(s) >= 4 /\ \A k \in 1..Len(s) : s[k] = "="

\* C23: the current section changes only at a non-empty line whose next line consists
\* solely of = characters, at least four of them; a next line that starts with ====
\* and goes on with other text, or a blank line above a ==== line, leaves the current
\* section as it was.
C23_Step ==
    current_section' # current_section =>
        /\ pc = "scan"
        /\ i + 1 < Len(lines)
        /\ strip(LineAt(i)) # <<>>
        /\ OnlyEquals(strip(LineAt(i + 1)))

C23_HeadingOnlyAtMarker == [][C23_Step]_vars

-----------------------------------------------------------------------------
(* Claims about the sections of the cards *)

\* C29: the section of every card is an element of the section catalog, at every
\* point of the scan and in what parse_markdown_tables returns.
C29_SectionInCatalog ==
    \A k \in 1..Len(cards) : InSeq(sections, cards[k].section)

\* a card under a heading and a card of a table that no heading precedes
C29_Witness ==
    /\ pc = "done"
    /\ lines = <<L_row2, L_sep, L_row2, L_blank, L_marker>>
    /\ Len(cards) = 1
    /\ cards[1].section = General
    /\ sections = <<General, <<>>>>

-----------------------------------------------------------------------------
(* Claims about the termination of parse_markdown_tables *)

\* C30, the steps: every step of the outer scan moves the line index forward by at
\* least one, whatever the line is (also a table header without a separator row); every
\* data row moves it by one; the index never passes the end by more than one line; and
\* the step that ends a table leaves the index on the line that ended it, which the
\* outer scan examines next.
C30_Step ==
    /\ (pc = "scan" /\ i < Len(lines)) => (i' >= i + 1 /\ pc' \in {"scan", "rows"})
    /\ (pc = "rows" /\ pc' = "rows") => i' = i + 1
    /\ (pc = "rows" /\ pc' = "scan") => i' = i
    /\ i' >= i
    /\ i' <= Len(lines) + 1

\* C30: parse_markdown_tables returns on every document.
C30_Terminates == <>(pc = "done") /\ [][C30_Step]_vars

\* a table without data rows whose end is the heading line that follows it: the
\* heading is recognized and the call has returned
C30_Witness ==
    /\ pc = "done"
    /\ lines = <<L_row2, L_sep, L_text, L_marker>>
    /\ sections = <<General, <<"A">>>>
    /\ cards = <<>>
    /\ i = Len(lines)

\* a header row without a separator row has been passed
C30_WitnessNoSeparator ==
    /\ pc = "done"
    /\ lines = <<L_row2, L_row2, L_sep>>
    /\ sections = <<General>>
    /\ i = Len(lines)

\* a table that ends at the last line of the document has been read to its end
C30_WitnessLastLine ==
    /\ pc = "done"
    /\ lines = <<L_row2, L_sep, L_row2>>
    /\ Len(cards) = 1

-----------------------------------------------------------------------------
(* Claims about the flashcard session *)

\* the index of the card shown is an index of the deck, 0 when the deck is empty
C24_Index ==
    InSession =>
        IF SessionCards # <<>>
        THEN 0 <= current_index /\ current_index < Len(SessionCards)
        ELSE current_index = 0 /\ app_raised = "none"

\* C24, the steps: on a deck with cards, next at the last card and previous at the
\* first card leave the index as it is and otherwise move it by exactly one; flip
\* leaves it as it is; on an empty deck each of them leaves it at 0.
C24_Step ==
    /\ NextCard =>
           current_index' = IF SessionCards = <<>> \/ current_index = Len(SessionCards) - 1
                            THEN current_index ELSE current_index + 1
    /\ PrevCard =>
           current_index' = IF SessionCards = <<>> \/ current_index = 0
                            THEN current_index ELSE current_index - 1
    /\ FlipCard => current_index' = current_index
    /\ ShuffleCards => current_index' = 0

C24_WitnessEmpty ==
    /\ InSession
    /\ SessionCards = <<>>
    /\ current_index = 0
    /\ is_flipped

\* C25, the steps: a shuffle keeps every card of the deck as many times as it was
\* there, sets the index to 0 and shows the front; original_order is the deck of the
\* step that made the session and no later step changes it.
C25_Step ==
    /\ ShuffleCards =>
           /\ Len(SessionCards') = Len(SessionCards)
           /\ \A c \in CardSet : Occurrences(SessionCards', c) = Occurrences(SessionCards, c)
           /\ current_index' = 0
           /\ ~is_flipped'
           /\ original_order' = original_order
    /\ (screen = "menu" /\ screen' # "menu") => original_order' = SessionCards'
    /\ ~(screen = "menu" /\ screen' # "menu") => original_order' = original_order

-----------------------------------------------------------------------------
(* Claims about the screens of App *)

\* the history file holds what it held when the last save was called and one entry
\* more, which carries the numbers of that call
C21_Saved ==
    last_call.op = "save" =>
        LET h == LoadQuizHistory IN
            /\ Len(h) = Len(log_before) + 1
            /\ SubSeq(h, 1, Len(log_before)) = log_before
            /\ h[Len(h)].total = last_call.total
            /\ h[Len(h)].correct = last_call.correct

\* C21, the steps: the step that brings up a results screen makes exactly one save,
\* whose total is the total given to the results screen and whose correct is its
\* correct; after it App holds no card screen, the card screen is not shown and the
\* results screen is; no other step saves; the step that lets the results screen go
\* hides it and shows the menu.
C21_Step ==
    /\ (results_screen' # results_screen /\ results_screen' # <<>>) =>
           /\ saves' = saves + 1
           /\ last_call'.op = "save"
           /\ last_call'.total = results_screen'[1].total
           /\ last_call'.correct = results_screen'[1].correct
           /\ screen' = "menu"
           /\ "cards" \notin shown'
           /\ "results" \in shown'
    /\ saves' # saves => (results_screen' # <<>> /\ saves' = saves + 1)
    /\ (results_screen # <<>> /\ results_screen' = <<>>) =>
           /\ "results" \notin shown'
           /\ "menu" \in shown'

\* C21: App._on_quiz_complete(correct, total) saves one history entry with the total
\* and the correct of the callback, unswapped, lets the card screen go and shows the
\* results; App._back_to_menu_from_results lets the results screen go and shows the menu.
C21_CompleteThenBack == [](C21_Saved) /\ [][C21_Step]_vars

\* a quiz of MaxTotal questions with no right answer has been reported: the results are
\* shown alone and the file holds the one entry
C21_Witness ==
    /\ results_screen = <<[correct |-> 0, total |-> MaxTotal]>>
    /\ shown = {"results"}
    /\ screen = "menu"
    /\ saves = 1
    /\ Len(LoadQuizHistory) = 1
    /\ LoadQuizHistory[1].total = MaxTotal
    /\ LoadQuizHistory[1].correct = 0

\* the results screen of that quiz has been left for the menu
C21_WitnessBack ==
    /\ results_screen = <<>>
    /\ shown = {"menu"}
    /\ saves = 1
    /\ last_call.op = "save"

\* C28: exactly one screen among the main menu, the card screen, the results screen
\* and the scoreboard is shown.
C28_OneScreenShown == Cardinality(shown) = 1

\* the second half of C28: the main menu is never shown while another screen is
C28_MenuAlone == "menu" \in shown => shown = {"menu"}

====
